---- MODULE Spec2Model ----
(***************************************************************************)
(* ISS-Tracker.py: one computation run of update_graph().                  *)
(*                                                                         *)
(*   update_graph  ->  _pull_tle      (config, login POST, TLE GET, split) *)
(*                 ->  _get_sat_posn  (EarthSatellite, ts.now, 180 samples)*)
(*                 ->  figure layers  (historical / future / current)      *)
(*                                                                         *)
(* Angles are fixed-point integers in milli-arcseconds (mas): one degree   *)
(* is 3600000 mas, one arc-minute 60000 mas, one arc-second 1000 mas.      *)
(* Instants are pairs <<julian day number, tick of the day>>, a tick being *)
(* 1/TicksPerSec of a second, so that the fractional second of ts.now()    *)
(* is part of the state.  Leap seconds are not modelled.                   *)
(***************************************************************************)
EXTENDS Integers, Sequences, FiniteSets, TLC

VARIABLES
    pc,          \* position of the run inside update_graph
    postStatus,  \* resp.status_code of the login POST (0: not issued)
    getStatus,   \* resp.status_code of the TLE GET   (0: not issued)
    body,        \* resp.text of the GET, a sequence of tokens
    tle,         \* the list _pull_tle returns ([] until then)
    arg,         \* the argument _get_sat_posn was called with
    satellite,   \* the EarthSatellite built at line 61
    t,           \* ts.now().utc
    date,        \* datetime(t[0..4], int(t[5]))
    minute,      \* loop variable of line 65
    positions,   \* the dict of four columns of line 58
    track,       \* the DataFrame returned at line 77
    fig,         \* the figure update_graph returns
    log,         \* history: the external calls made, in order
    sampled,     \* history: per appended sample, its offset and the instant propagated
    origin,      \* conversion harness: where the DMS triple came from
    dd,          \* conversion harness: decimal-degree input (mas)
    dmsv,        \* conversion harness: the (degrees, minutes, seconds) triple
    ddOut        \* conversion harness: result of _dms_to_dd

vars == <<pc, postStatus, getStatus, body, tle, arg, satellite, t, date, minute,
          positions, track, fig, log, sampled, origin, dd, dmsv, ddOut>>

runVars == <<pc, postStatus, getStatus, body, tle, arg, satellite, t, date, minute,
             positions, track, fig, log, sampled>>

convVars == <<origin, dd, dmsv, ddOut>>

----------------------------------------------------------------------------
(* Bounds of the model *)

\* resolution of the clock: ticks per second
TicksPerSec == 2

\* spacing (mas) of the decimal-degree inputs of the conversion harness
GridStep == 37037

(* Program constants *)

\* for minute in range(-90, 90)
RangeLo == -90

RangeHi == 90

\* the only status both requests accept
StatusOk == 200

Abs(x) == IF x < 0 THEN -x ELSE x

Sign(x) == IF x < 0 THEN -1 ELSE IF x > 0 THEN 1 ELSE 0

Deg == 3600000

ArcMin == 60000

\* IEEE NaN, which no arithmetic turns back into a number
NaN == 0 - 2000000000

DayTicks == 24 * 3600 * TicksPerSec

----------------------------------------------------------------------------
(* Text: a string is a sequence of one-character strings. *)

DigitChar(k) == <<"0", "1", "2", "3", "4", "5", "6", "7", "8", "9">>[k + 1]

\* ASCII code of the characters a timestamp is made of
Ascii(c) ==
    CASE c = "-" -> 45
      [] c = "0" -> 48 [] c = "1" -> 49 [] c = "2" -> 50 [] c = "3" -> 51
      [] c = "4" -> 52 [] c = "5" -> 53 [] c = "6" -> 54 [] c = "7" -> 55
      [] c = "8" -> 56 [] c = "9" -> 57
      [] c = ":" -> 58
      [] c = "T" -> 84

\* Python's str ordering: lexicographic by code point, a proper prefix first
RECURSIVE StrLt(_, _)
StrLt(a, b) ==
    IF b = <<>> THEN FALSE
    ELSE IF a = <<>> THEN TRUE
    ELSE IF Ascii(Head(a)) # Ascii(Head(b)) THEN Ascii(Head(a)) < Ascii(Head(b))
    ELSE StrLt(Tail(a), Tail(b))

\* '%02d' and '%04d' as strftime pads them
Pad2(n) == <<DigitChar((n \div 10) % 10), DigitChar(n % 10)>>

Pad4(n) == Pad2(n \div 100) \o Pad2(n % 100)

DigitVal(c) == Ascii(c) - 48

----------------------------------------------------------------------------
(* datetime: the proleptic Gregorian calendar of Python's datetime module. *)

IsLeap(y) == y % 4 = 0 /\ (y % 100 # 0 \/ y % 400 = 0)

DaysBeforeMonthTable == <<0, 31, 59, 90, 120, 151, 181, 212, 243, 273, 304, 334>>

DaysInMonthTable == <<31, 28, 31, 30, 31, 30, 31, 31, 30, 31, 30, 31>>

DaysBeforeYear(y) ==
    LET p == y - 1 IN p * 365 + (p \div 4) - (p \div 100) + (p \div 400)

DaysBeforeMonth(y, m) ==
    DaysBeforeMonthTable[m] + (IF m > 2 /\ IsLeap(y) THEN 1 ELSE 0)

\* date.toordinal(): 0001-01-01 is day 1
ymd2ord(y, m, d) == DaysBeforeYear(y) + DaysBeforeMonth(y, m) + d

\* date.fromordinal(): the 400/100/4/1-year cycle decomposition
ord2ymd(ordinal) ==
    LET n0   == ordinal - 1
        n400 == n0 \div 146097
        r400 == n0 % 146097
        n100 == r400 \div 36524
        r100 == r400 % 36524
        n4   == r100 \div 1461
        r4   == r100 % 1461
        n1   == r4 \div 365
        n    == r4 % 365
        year == n400 * 400 + 1 + n100 * 100 + n4 * 4 + n1
        leap == n1 = 3 /\ (n4 # 24 \/ n100 = 3)
        m0   == (n + 50) \div 32
        pre0 == DaysBeforeMonthTable[m0] + (IF m0 > 2 /\ leap THEN 1 ELSE 0)
        mon  == IF pre0 > n THEN m0 - 1 ELSE m0
        pre  == IF pre0 > n
                THEN pre0 - (DaysInMonthTable[mon] + (IF mon = 2 /\ leap THEN 1 ELSE 0))
                ELSE pre0
    IN  IF n1 = 4 \/ n100 = 4
        THEN [year |-> year - 1, month |-> 12, day |-> 31]
        ELSE [year |-> year, month |-> mon, day |-> n - pre + 1]

\* datetime.datetime(year, month, day, hour, minute, second), second an int
datetime(y, mo, d, h, mi, s) ==
    [year |-> y, month |-> mo, day |-> d, hour |-> h, minute |-> mi, second |-> s]

\* variant: the time of day wraps around and the date is left alone
timedelta_add_nocarry(dt, m) ==
    LET secs == dt.hour * 3600 + dt.minute * 60 + dt.second + m * 60
        rem  == secs % 86400
    IN  datetime(dt.year, dt.month, dt.day,
                 rem \div 3600, (rem % 3600) \div 60, rem % 60)

\* dt + datetime.timedelta(minutes=m): days and seconds are renormalised
timedelta_add(dt, m) ==
    LET secs == dt.hour * 3600 + dt.minute * 60 + dt.second + m * 60
        ord  == ymd2ord(dt.year, dt.month, dt.day) + (secs \div 86400)
        rem  == secs % 86400
        ymd  == ord2ymd(ord)
    IN  datetime(ymd.year, ymd.month, ymd.day,
                 rem \div 3600, (rem % 3600) \div 60, rem % 60)

\* dt.strftime('%Y-%m-%dT%H:%M:%S%Z'); %Z is empty for a naive datetime
strftime(dt) ==
    Pad4(dt.year) \o <<"-">> \o Pad2(dt.month) \o <<"-">> \o Pad2(dt.day) \o <<"T">>
    \o Pad2(dt.hour) \o <<":">> \o Pad2(dt.minute) \o <<":">> \o Pad2(dt.second)

----------------------------------------------------------------------------
(* skyfield timescale *)

\* skyfield's julian_day(year, month, day): the Julian day number of a civil date
julian_day(y, m, d) ==
    LET janfeb == IF m <= 2 THEN 1 ELSE 0
        g == y + 4716 - janfeb
        f == (m + 9) % 12
        e == ((1461 * g) \div 4) + d - 1402
        J == e + ((153 * f + 2) \div 5)
    IN  J + (38 - ((((g + 184) \div 100) * 3) \div 4))

\* variant: a minute outside 0..59 is reduced into the hour instead of carried
ts_utc_nocarry(y, mo, d, h, mi, s) ==
    LET ticks == (h * 3600 + (mi % 60) * 60) * TicksPerSec + s
    IN  <<julian_day(y, mo, d) + (ticks \div DayTicks), ticks % DayTicks>>

\* ts.utc(year, month, day, hour, minute, second): the instant denoted; hour,
\* minute and second may lie outside their civil range and carry over linearly.
\* second is given in ticks (it is a float with a fraction in the program).
ts_utc(y, mo, d, h, mi, s) ==
    LET ticks == (h * 3600 + mi * 60) * TicksPerSec + s
    IN  <<julian_day(y, mo, d) + (ticks \div DayTicks), ticks % DayTicks>>

\* ts.now().utc: (year, month, day, hour, minute, second), second with its
\* fraction.  The reference instants cross an hour, a day, a leap day, a month
\* and a year inside the 180-minute window.
RefInstants ==
    { [year |-> 2023, month |-> 12, day |-> 31, hour |-> 23, minute |-> 30,
       second |-> 15 * TicksPerSec + 1],
      [year |-> 2024, month |-> 2,  day |-> 29, hour |-> 0,  minute |-> 10,
       second |-> 59 * TicksPerSec + (TicksPerSec - 1)],
      [year |-> 2023, month |-> 6,  day |-> 15, hour |-> 12, minute |-> 0,
       second |-> 0] }

----------------------------------------------------------------------------
(* Angles *)

\* skyfield Angle.dms(): sign, then divmod of the magnitude; the sign is applied
\* to all three components.  Result: <<degrees, minutes, seconds (mas)>>.
dms(a) ==
    IF a = NaN THEN <<NaN, NaN, NaN>>
    ELSE LET n       == Abs(a)
             mins    == n \div ArcMin
             seconds == n % ArcMin
             units   == mins \div 60
             minutes == mins % 60
         IN  <<Sign(a) * units, Sign(a) * minutes, Sign(a) * seconds>>

\* variant: minutes and seconds are taken as magnitudes and added as such
dms_to_dd_magnitudes(x) ==
    IF x[1] = NaN \/ x[2] = NaN \/ x[3] = NaN THEN NaN
    ELSE x[1] * Deg + Abs(x[2]) * ArcMin + Abs(x[3])

\* return dms[0] + dms[1]/60 + dms[2]/3600, scaled to mas
_dms_to_dd(x) ==
    IF x[1] = NaN \/ x[2] = NaN \/ x[3] = NaN THEN NaN
    ELSE x[1] * Deg + x[2] * ArcMin + x[3]

----------------------------------------------------------------------------
(* The satellite *)

\* How the SGP4 propagator behaves for the element set: fine over the whole
\* window, or from some offset on either reporting an error (skyfield then
\* returns NaN coordinates and sets position.message, it does not raise) or
\* raising an exception out of the library call.
PropModes ==
    {[kind |-> "ok", from |-> RangeLo]}
    \cup {[kind |-> k, from |-> f] : k \in {"nan", "raise"}, f \in {RangeLo, 0, RangeHi - 1}}

\* wgs84.latlon_of(satellite.at(new_t)): a deterministic function of the
\* element set and the instant.  The orbit itself is outside this model; the
\* stand-in is a ground track of about 90 minutes period, in mas.
latlon_of_at(sat, min, instant) ==
    IF sat.mode.kind = "nan" /\ min >= sat.mode.from
    THEN <<NaN, NaN>>
    ELSE LET m   == instant[2] \div (60 * TicksPerSec) + (instant[1] % 7) * 1440
             sub == (instant[2] % (60 * TicksPerSec)) * 1001 + (m % 60) * 59003
             lat == (Abs((m % 92) - 46) * 2 - 46) * Deg + sub
             lon == (((m * 4) % 360) - 180) * Deg + sub
         IN  <<lat, lon>>

----------------------------------------------------------------------------
(* The response text of the GET: tokens are whole element lines and line ends. *)

CRLF == "\r\n"

LF == "\n"

\* the form the provider answers in: line 1, line 2, each ended by CRLF
GoodBody == <<"L1", CRLF, "L2", CRLF>>

Bodies ==
    { GoodBody,
      <<"L1", CRLF, "L2short", CRLF>>,          \* line 2 truncated
      <<"L1", CRLF, "L2badcols", CRLF>>,        \* line 2 with corrupted columns
      <<"L1", CRLF, "L2">>,                     \* no final line end
      <<"L1", CRLF>>,                           \* line 2 missing
      <<>>,                                     \* empty answer
      <<"L1", LF, "L2", LF>>,                   \* other line-end convention
      <<"L1", CRLF, "L2", CRLF, "L1", CRLF>> }  \* more than one element set

\* str.split(text, '\r\n')
RECURSIVE split(_)
split(text) ==
    IF text = <<>> THEN << <<>> >>
    ELSE LET rest == split(Tail(text))
         IN  IF Head(text) = CRLF
             THEN << <<>> >> \o rest
             ELSE << <<Head(text)>> \o Head(rest) >> \o Tail(rest)

\* a pair of lines in the two-line element fixed-column format
WellFormed(lines) == lines = << <<"L1">>, <<"L2">> >>

Statuses == {StatusOk, 401, 500}

----------------------------------------------------------------------------
(* pandas *)

EmptyPositions == [name |-> <<>>, lat |-> <<>>, lon |-> <<>>, datetime |-> <<>>]

\* series[a:b]: the rows at positions a..b-1, each keeping its index label
Slice(series, a, b) ==
    [i \in {k \in a..(b - 1) : k < Len(series)} |-> series[i + 1]]

\* series.iloc[i]
iloc(series, i) == series[i + 1]

----------------------------------------------------------------------------
(* The figure layers of update_graph *)

\* animation_frame="datetime": one frame per row of the data frame
Frames(df) == df.datetime

\* variant: the historical layer stops before the current sample, [0:90]
HistoricalPathExclusive(df) == [lat |-> Slice(df.lat, 0, 90), lon |-> Slice(df.lon, 0, 90)]

\* 'Historical Path': positions[...][0:91]
HistoricalPath(df) == [lat |-> Slice(df.lat, 0, 91), lon |-> Slice(df.lon, 0, 91)]

\* 'Future Path': positions[...][90:180]
FuturePath(df) == [lat |-> Slice(df.lat, 90, 180), lon |-> Slice(df.lon, 90, 180)]

\* variant: the current layer reads the row before, iloc[89]
CurrentPositionPrev(df) == [lat |-> <<iloc(df.lat, 89)>>, lon |-> <<iloc(df.lon, 89)>>]

\* 'ISS Current Position': [positions[...].iloc[90]]
CurrentPosition(df) == [lat |-> <<iloc(df.lat, 90)>>, lon |-> <<iloc(df.lon, 90)>>]

----------------------------------------------------------------------------
(* One run of update_graph.  An absent value (Python None, an unbound local)
   is the empty tuple, a present one a one-element tuple. *)

Init ==
    /\ pc = "config"
    /\ postStatus = 0
    /\ getStatus = 0
    /\ body = <<>>
    /\ tle = <<>>
    /\ arg = <<>>
    /\ satellite = <<>>
    /\ t = <<>>
    /\ date = <<>>
    /\ minute = RangeLo
    /\ positions = EmptyPositions
    /\ track = <<>>
    /\ fig = <<>>
    /\ log = <<>>
    /\ sampled = <<>>
    /\ origin = "none"
    /\ dd = 0
    /\ dmsv = <<>>
    /\ ddOut = <<>>

\* _pull_tle, lines 27-32: SLTrack.ini is read; config.get raises when the
\* section or an option is missing
ReadConfig ==
    /\ pc = "config"
    /\ \E ok \in BOOLEAN : pc' = IF ok THEN "login" ELSE "raised"
    /\ UNCHANGED <<postStatus, getStatus, body, tle, arg, satellite, t, date, minute,
                   positions, track, fig, log, sampled>>
    /\ UNCHANGED convVars

\* variant: the status of the login POST is not looked at
PostLoginUnchecked ==
    /\ pc = "login"
    /\ \E s \in Statuses : postStatus' = s
    /\ pc' = "get"
    /\ log' = Append(log, "POST")
    /\ UNCHANGED <<getStatus, body, tle, arg, satellite, t, date, minute,
                   positions, track, fig, sampled>>
    /\ UNCHANGED convVars

\* lines 42-44: the login POST; any status but 200 raises MyError
PostLogin ==
    /\ pc = "login"
    /\ \E s \in Statuses :
          /\ postStatus' = s
          /\ pc' = IF s # StatusOk THEN "raised" ELSE "get"
    /\ log' = Append(log, "POST")
    /\ UNCHANGED <<getStatus, body, tle, arg, satellite, t, date, minute,
                   positions, track, fig, sampled>>
    /\ UNCHANGED convVars

\* variant: a GET that fails is issued once more before giving up
GetTleRetry ==
    /\ pc = "get"
    /\ \E s \in Statuses, b \in Bodies :
          /\ getStatus' = s
          /\ body' = b
          /\ pc' = IF s = StatusOk THEN "split"
                   ELSE IF getStatus = 0 THEN "get" ELSE "raised"
    /\ log' = Append(log, "GET")
    /\ UNCHANGED <<postStatus, tle, arg, satellite, t, date, minute,
                   positions, track, fig, sampled>>
    /\ UNCHANGED convVars

\* lines 47-50: the TLE GET; any status but 200 raises MyError
GetTle ==
    /\ pc = "get"
    /\ \E s \in Statuses, b \in Bodies :
          /\ getStatus' = s
          /\ body' = b
          /\ pc' = IF s # StatusOk THEN "raised" ELSE "split"
    /\ log' = Append(log, "GET")
    /\ UNCHANGED <<postStatus, tle, arg, satellite, t, date, minute,
                   positions, track, fig, sampled>>
    /\ UNCHANGED convVars

\* lines 53-55: line1, line2, _ = str.split(resp.text, '\r\n') raises ValueError
\* unless the split yields exactly three parts; tle = [line1, line2] is returned
SplitTle ==
    /\ pc = "split"
    /\ LET parts == split(body)
       IN  IF Len(parts) = 3
           THEN /\ tle' = <<parts[1], parts[2]>>
                /\ pc' = "posn"
           ELSE /\ tle' = tle
                /\ pc' = "raised"
    /\ UNCHANGED <<postStatus, getStatus, body, arg, satellite, t, date, minute,
                   positions, track, fig, log, sampled>>
    /\ UNCHANGED convVars

\* line 89 and lines 58-61: _get_sat_posn(tle) is entered and the satellite is
\* built.  The program does not look at the lines itself.  For lines that are
\* not in the element format the library either raises ValueError (the
\* validating parser) or builds a satellite from whatever the columns hold
\* (the accelerated parser, which does not validate).
MakeSatellite ==
    /\ pc = "posn"
    /\ arg' = tle
    /\ positions' = EmptyPositions
    /\ log' = log \o <<"_get_sat_posn", "EarthSatellite">>
    /\ \/ /\ WellFormed(tle)
          /\ \E m \in PropModes : satellite' = <<[valid |-> TRUE, mode |-> m]>>
          /\ pc' = "now"
       \/ /\ ~WellFormed(tle)
          /\ satellite' = satellite
          /\ pc' = "raised"
       \/ /\ ~WellFormed(tle)
          /\ \E m \in PropModes : satellite' = <<[valid |-> FALSE, mode |-> m]>>
          /\ pc' = "now"
    /\ UNCHANGED <<postStatus, getStatus, body, tle, t, date, minute,
                   track, fig, sampled>>
    /\ UNCHANGED convVars

\* lines 62-63: t = ts.now().utc; date = datetime(t[0..4], int(t[5]))
ReadClock ==
    /\ pc = "now"
    /\ \E r \in RefInstants :
          /\ t' = <<r>>
          /\ date' = <<datetime(r.year, r.month, r.day, r.hour, r.minute,
                                r.second \div TicksPerSec)>>
    /\ minute' = RangeLo
    /\ pc' = "loop"
    /\ UNCHANGED <<postStatus, getStatus, body, tle, arg, satellite,
                   positions, track, fig, log, sampled>>
    /\ UNCHANGED convVars

\* lines 65-75: one iteration of the loop
Sample ==
    /\ pc = "loop"
    /\ minute < RangeHi
    /\ LET now     == t[1]
           sat     == satellite[1]
           newdate == timedelta_add(date[1], minute)
           label   == strftime(newdate)
           new_t   == ts_utc(now.year, now.month, now.day, now.hour,
                             now.minute + minute, now.second)
           latlon  == latlon_of_at(sat, minute, new_t)
           lonDD   == _dms_to_dd(dms(latlon[2]))
           latDD   == _dms_to_dd(dms(latlon[1]))
       IN  IF sat.mode.kind = "raise" /\ minute >= sat.mode.from
           THEN \* satellite.at raises after line 67 has run; nothing catches it
                /\ positions' = [positions EXCEPT !.datetime = Append(@, label)]
                /\ pc' = "raised"
                /\ UNCHANGED <<minute, sampled>>
           ELSE /\ positions' = [name     |-> Append(positions.name, "ISS"),
                                 lat      |-> Append(positions.lat, latDD),
                                 lon      |-> Append(positions.lon, lonDD),
                                 datetime |-> Append(positions.datetime, label)]
                /\ sampled' = Append(sampled, [minute |-> minute, instant |-> new_t])
                /\ minute' = minute + 1
                /\ pc' = pc
    /\ log' = Append(log, "at")
    /\ UNCHANGED <<postStatus, getStatus, body, tle, arg, satellite, t, date,
                   track, fig>>
    /\ UNCHANGED convVars

\* line 77: return pd.DataFrame(positions)
ReturnTrack ==
    /\ pc = "loop"
    /\ minute = RangeHi
    /\ track' = <<positions>>
    /\ pc' = "built"
    /\ UNCHANGED <<postStatus, getStatus, body, tle, arg, satellite, t, date, minute,
                   positions, fig, log, sampled>>
    /\ UNCHANGED convVars

\* lines 91-129: the figure; pd.read_pickle('cities.pkl') raises when the file
\* cannot be read
Render ==
    /\ pc = "built"
    /\ \E cities \in BOOLEAN :
          IF cities
          THEN /\ fig' = <<[frames  |-> Frames(track[1]),
                            hist    |-> HistoricalPath(track[1]),
                            future  |-> FuturePath(track[1]),
                            current |-> CurrentPosition(track[1])]>>
               /\ pc' = "rendered"
          ELSE /\ fig' = fig
               /\ pc' = "raised"
    /\ UNCHANGED <<postStatus, getStatus, body, tle, arg, satellite, t, date, minute,
                   positions, track, log, sampled>>
    /\ UNCHANGED convVars

Next ==
    \/ ReadConfig
    \/ PostLogin
    \/ GetTle
    \/ SplitTle
    \/ MakeSatellite
    \/ ReadClock
    \/ Sample
    \/ ReturnTrack
    \/ Render

Spec == Init /\ [][Next]_vars

----------------------------------------------------------------------------
(* The conversions on their own: a decimal-degree value taken through
   Angle.dms() and _dms_to_dd, and _dms_to_dd applied to a triple given by a
   caller in the degrees / minutes / seconds convention of a signed degrees
   component with non-negative minutes and seconds. *)

\* decimal degrees over [-180, 180] on a grid, with the range ends of both axes
DDInputs ==
    {k * GridStep : k \in (0 - ((180 * Deg) \div GridStep))..((180 * Deg) \div GridStep)}
    \cup {180 * Deg, 0 - 180 * Deg, 90 * Deg, 0 - 90 * Deg}

CallerTriples ==
    {<<d, m, s>> : d \in (0 - 180)..180, m \in {0, 1, 30, 59}, s \in {0, 1000, 30500, 59999}}

InitConv ==
    /\ pc = "config"
    /\ postStatus = 0
    /\ getStatus = 0
    /\ body = <<>>
    /\ tle = <<>>
    /\ arg = <<>>
    /\ satellite = <<>>
    /\ t = <<>>
    /\ date = <<>>
    /\ minute = RangeLo
    /\ positions = EmptyPositions
    /\ track = <<>>
    /\ fig = <<>>
    /\ log = <<>>
    /\ sampled = <<>>
    /\ ddOut = <<>>
    /\ \/ /\ origin = "dms"
          /\ dd \in DDInputs
          /\ dmsv = <<>>
       \/ /\ origin = "caller"
          /\ dd = 0
          /\ dmsv \in CallerTriples

\* lat.dms() / lon.dms(), lines 71-72
ToDms ==
    /\ origin = "dms"
    /\ dmsv = <<>>
    /\ dmsv' = dms(dd)
    /\ UNCHANGED <<origin, dd, ddOut>>
    /\ UNCHANGED runVars

\* _dms_to_dd(dms), lines 79-80
DmsToDd ==
    /\ dmsv # <<>>
    /\ ddOut = <<>>
    /\ ddOut' = <<_dms_to_dd(dmsv)>>
    /\ UNCHANGED <<origin, dd, dmsv>>
    /\ UNCHANGED runVars

NextConv ==
    \/ ToDms
    \/ DmsToDd

SpecConv == InitConv /\ [][NextConv]_vars

----------------------------------------------------------------------------
(* Vocabulary of the properties *)

Count(seq, e) == Cardinality({i \in 1..Len(seq) : seq[i] = e})

Occurs(seq, e) == \E i \in 1..Len(seq) : seq[i] = e

\* number a run of digit characters denotes
RECURSIVE ParseInt(_)
ParseInt(str) ==
    IF str = <<>> THEN 0
    ELSE ParseInt(SubSeq(str, 1, Len(str) - 1)) * 10 + DigitVal(str[Len(str)])

\* the instant a 'YYYY-MM-DDTHH:MM:SS' label denotes
LabelInstant(label) ==
    LET y  == ParseInt(SubSeq(label, 1, 4))
        mo == ParseInt(SubSeq(label, 6, 7))
        d  == ParseInt(SubSeq(label, 9, 10))
        h  == ParseInt(SubSeq(label, 12, 13))
        mi == ParseInt(SubSeq(label, 15, 16))
        sc == ParseInt(SubSeq(label, 18, 19))
    IN  <<julian_day(y, mo, d), (h * 3600 + mi * 60 + sc) * TicksPerSec>>

\* an instant with its fraction of a second dropped
WholeSecond(instant) == <<instant[1], instant[2] - (instant[2] % TicksPerSec)>>

\* the offset the row with index label i was computed for
OffsetOfIndex(i) == sampled[i + 1].minute

OffsetsOf(series) == {OffsetOfIndex(i) : i \in DOMAIN series}

\* the index labels of the rows computed for offset 0
ZeroIndexes == {i \in 0..(Len(sampled) - 1) : OffsetOfIndex(i) = 0}

\* the GET answered 200 with a text that is not the two element lines and a remainder
BadSplit == getStatus = StatusOk /\ Len(split(body)) # 3

\* the GET answered 200 with lines that are not a well-formed element set
Malformed ==
    /\ getStatus = StatusOk
    /\ \/ Len(split(body)) # 3
       \/ ~WellFormed(<<split(body)[1], split(body)[2]>>)

\* a sample at which the propagator reported an error: NaN coordinates came back
DivergedSample == \E i \in 1..Len(positions.lat) : positions.lat[i] = NaN

\* a sample at which the library call raised
FailedSample ==
    /\ satellite # <<>>
    /\ satellite[1].mode.kind = "raise"
    /\ Len(positions.datetime) > Len(positions.lat)

----------------------------------------------------------------------------
(* C1: every ground track returned by _get_sat_posn has exactly 180 rows, one
   per offset -90..89 in increasing offset order, and the timestamp strings
   are strictly ascending, row after row. *)
C1_WindowComplete ==
    track # <<>> =>
        LET df == track[1]
        IN  /\ Len(df.datetime) = 180
            /\ Len(df.lat) = 180 /\ Len(df.lon) = 180 /\ Len(df.name) = 180
            /\ Len(sampled) = 180
            /\ \A i \in 1..180 : sampled[i].minute = i - 91
            /\ \A i \in 1..179 : StrLt(df.datetime[i], df.datetime[i + 1])

\* a track whose window runs over the end of the year 2023
C1_Witness ==
    /\ track # <<>>
    /\ Len(track[1].datetime) = 180
    /\ t[1].year = 2023 /\ t[1].month = 12
    /\ track[1].datetime[1][4] = "3" /\ track[1].datetime[180][4] = "4"

(* C2: in every ground track the offset-0 sample is present exactly once, its
   timestamp is the reference instant to the minute, and the current-position
   layer of the figure holds exactly that sample. *)
C2_CurrentIsOffsetZero ==
    track # <<>> =>
        LET df  == track[1]
            now == t[1]
            ref == strftime(datetime(now.year, now.month, now.day,
                                     now.hour, now.minute, 0))
        IN  /\ Cardinality(ZeroIndexes) = 1
            /\ \A i \in ZeroIndexes :
                  /\ SubSeq(df.datetime[i + 1], 1, 16) = SubSeq(ref, 1, 16)
                  /\ fig # <<>> =>
                        fig[1].current = [lat |-> <<df.lat[i + 1]>>,
                                          lon |-> <<df.lon[i + 1]>>]

\* a rendered figure over a track with real coordinates
C2_Witness ==
    /\ fig # <<>>
    /\ satellite[1].mode.kind = "ok"
    /\ ZeroIndexes = {90}
    /\ fig[1].current.lat[1] = track[1].lat[91]

(* C3, as claimed: the historical layer holds exactly the offsets < 0, the
   future layer exactly the offsets > 0, the offset-0 sample is in neither, and
   no sample is in two layers. *)
C3_DisjointPartition ==
    fig # <<>> =>
        /\ OffsetsOf(fig[1].hist.lat) = {o \in RangeLo..(RangeHi - 1) : o < 0}
        /\ OffsetsOf(fig[1].future.lat) = {o \in RangeLo..(RangeHi - 1) : o > 0}
        /\ DOMAIN fig[1].hist.lat \cap DOMAIN fig[1].future.lat = {}

(* C3, amended: the historical layer holds exactly the offsets <= 0, the future
   layer exactly the offsets >= 0, the current layer is the offset-0 sample;
   together they cover all 180 samples and offset 0 is the only sample that is
   in more than one layer. *)
C3_OverlappingLayers ==
    fig # <<>> =>
        LET f == fig[1]
        IN  /\ OffsetsOf(f.hist.lat) = RangeLo..0
            /\ OffsetsOf(f.future.lat) = 0..(RangeHi - 1)
            /\ DOMAIN f.hist.lon = DOMAIN f.hist.lat
            /\ DOMAIN f.future.lon = DOMAIN f.future.lat
            /\ \A i \in DOMAIN f.hist.lat : f.hist.lat[i] = track[1].lat[i + 1]
            /\ \A i \in DOMAIN f.future.lat : f.future.lat[i] = track[1].lat[i + 1]
            /\ DOMAIN f.hist.lat \cup DOMAIN f.future.lat = 0..179
            /\ DOMAIN f.hist.lat \cap DOMAIN f.future.lat = ZeroIndexes
            /\ \A i \in ZeroIndexes : f.current.lat = <<track[1].lat[i + 1]>>

\* a rendered figure whose two path layers both hold the offset-0 sample
C3_Witness ==
    /\ fig # <<>>
    /\ 0 \in OffsetsOf(fig[1].hist.lat)
    /\ 0 \in OffsetsOf(fig[1].future.lat)
    /\ satellite[1].mode.kind = "ok"

(* C4: _dms_to_dd keeps the sign of the degrees: for degrees < 0 and minutes,
   seconds given as non-negative magnitudes the result is
   -(|degrees| + minutes/60 + seconds/3600); for degrees >= 0 it is
   degrees + minutes/60 + seconds/3600. *)
C4_SignPreserved ==
    (origin = "caller" /\ ddOut # <<>>) =>
        ddOut[1] = IF dmsv[1] < 0
                   THEN 0 - (Abs(dmsv[1]) * Deg + dmsv[2] * ArcMin + dmsv[3])
                   ELSE dmsv[1] * Deg + dmsv[2] * ArcMin + dmsv[3]

\* the conversion applied to (-33, 30, 0)
C4_Witness ==
    /\ origin = "caller"
    /\ dmsv = <<0 - 33, 30, 0>>
    /\ ddOut # <<>>

(* C5: once propagation has failed or diverged at a sample, no ground track is
   returned and no figure is rendered. *)
C5_NoTrackAfterFailure ==
    (FailedSample \/ DivergedSample) => (track = <<>> /\ fig = <<>>)

\* a run in which the propagator reported an error at some sample
C5_Witness ==
    /\ DivergedSample
    /\ pc = "loop"

(* C6: a run whose element lines are malformed fails before any sample is
   propagated: the propagator is never called in it. *)
C6_NoPropagationWhenMalformed ==
    Malformed => ~Occurs(log, "at")

\* a run with a truncated line 2 that has reached the parser
C6_Witness ==
    /\ Malformed
    /\ Len(split(body)) = 3
    /\ Occurs(log, "EarthSatellite")

(* C7: a login or GET status other than 200, or a text that does not split into
   three parts, makes _pull_tle raise and _get_sat_posn is never called; after
   a failed login no GET is issued; and whenever _get_sat_posn is called both
   requests answered 200 and its argument is the pair of lines of the text. *)
C7_CoreGetsPulledLinesOrNeverRuns ==
    /\ postStatus \notin {0, StatusOk} =>
          /\ pc = "raised"
          /\ ~Occurs(log, "GET")
          /\ ~Occurs(log, "_get_sat_posn")
    /\ getStatus \notin {0, StatusOk} =>
          /\ pc = "raised"
          /\ ~Occurs(log, "_get_sat_posn")
    /\ BadSplit =>
          /\ pc \in {"split", "raised"}
          /\ ~Occurs(log, "_get_sat_posn")
    /\ Occurs(log, "_get_sat_posn") =>
          /\ postStatus = StatusOk
          /\ getStatus = StatusOk
          /\ Len(split(body)) = 3
          /\ arg = <<split(body)[1], split(body)[2]>>
    /\ ~Occurs(log, "_get_sat_posn") => arg = <<>>

\* _get_sat_posn entered with the two lines of a text of three parts
C7_Witness ==
    /\ Occurs(log, "_get_sat_posn")
    /\ arg = << <<"L1">>, <<"L2">> >>
    /\ body = GoodBody

(* C8: a decimal-degree value in [-180, 180] taken to degrees, minutes, seconds
   by Angle.dms() and back by _dms_to_dd comes back within 1e-6 degree. *)
C8_RoundTrip ==
    (origin = "dms" /\ ddOut # <<>>) =>
        Abs(ddOut[1] - dd) <= Deg \div 1000000

\* a negative value of less than one degree, with minutes and seconds
C8_Witness ==
    /\ origin = "dms"
    /\ ddOut # <<>>
    /\ dd < 0 /\ dd > 0 - Deg
    /\ dmsv[1] = 0 /\ dmsv[2] < 0 /\ dmsv[3] < 0
    /\ ddOut[1] = dd

(* C9, as claimed: for every sample the instant its timestamp denotes is the
   instant the satellite was propagated at. *)
C9_LabelIsPropagationInstant ==
    \A i \in 1..Len(sampled) :
        LabelInstant(positions.datetime[i]) = sampled[i].instant

(* C9, amended: for every sample the instant propagated is the reference
   instant, fraction of a second included, plus the offset in minutes, and the
   timestamp denotes that instant with the fraction of a second dropped. *)
C9_LabelIsWholeSecondOfInstant ==
    \A i \in 1..Len(sampled) :
        LET now == t[1]
            ref == ts_utc(now.year, now.month, now.day, now.hour, now.minute, now.second)
            off == ref[2] + sampled[i].minute * 60 * TicksPerSec
        IN  /\ sampled[i].instant = <<ref[1] + (off \div DayTicks), off % DayTicks>>
            /\ LabelInstant(positions.datetime[i]) = WholeSecond(sampled[i].instant)

\* a sample, past midnight, of a run whose reference instant has a fraction of a second
C9_Witness ==
    /\ Len(sampled) = 180
    /\ t[1].second % TicksPerSec # 0
    /\ sampled[1].instant[1] # sampled[180].instant[1]
    /\ LabelInstant(positions.datetime[180]) # sampled[180].instant

(* C10: in one run the login POST is issued at most once, the GET at most once
   and only after a POST that answered 200, the satellite is built at most
   once, every offset is propagated at most once, no request and no parse
   follows the first propagation, and nothing follows a failure. *)
C10_FetchedOnceBeforePropagation ==
    /\ Count(log, "POST") <= 1
    /\ Count(log, "GET") <= 1
    /\ Count(log, "EarthSatellite") <= 1
    /\ Occurs(log, "GET") => (postStatus = StatusOk /\ log[1] = "POST" /\ log[2] = "GET")
    /\ \A j \in 2..Len(log) : log[j - 1] = "at" => log[j] = "at"
    /\ Count(log, "at") = Len(sampled) + (IF FailedSample THEN 1 ELSE 0)
    /\ \A i \in 2..Len(sampled) : sampled[i - 1].minute < sampled[i].minute
    /\ pc = "raised" =>
          /\ postStatus \notin {0, StatusOk} => log = <<"POST">>
          /\ getStatus \notin {0, StatusOk} => log = <<"POST", "GET">>

\* a complete run: one POST, one GET, one parse, then 180 propagations
C10_Witness ==
    /\ pc = "rendered"
    /\ Len(log) = 184
    /\ log[1] = "POST" /\ log[2] = "GET" /\ log[4] = "EarthSatellite"
    /\ log[5] = "at" /\ log[184] = "at"

====
